---- MODULE Spec2Model ----
(***************************************************************************)
(* DD-UI backend: inventory discovery (src/api/inventory.rs), the          *)
(* streamed CI run (src/api/ci_run.rs) and entitlement loading             *)
(* (src/entitlements.rs).                                                  *)
(*                                                                         *)
(* Three state machines share the variable list; each has its own          *)
(* specification: SpecInventory, SpecRun (FairSpecRun with fairness) and   *)
(* SpecEntitlements.                                                       *)
(***************************************************************************)
EXTENDS Integers, Sequences, FiniteSets, TLC

VARIABLES
    \* ---- filesystem under the scan root and the inventory request ----
    fs,             \* existing paths -> "file" | "dir"
    unreadable,     \* directories whose permissions deny listing and lookup
    responded,      \* a GET /api/inventory response is held by the client
    inventory,      \* the hosts vector of that response
    previous,       \* the response before it, when the client asked twice
    \* ---- POST /api/ci/run ----
    ents,           \* Entitlements of the AppState
    now,            \* wall clock, milliseconds
    runState,       \* "idle" | "streaming" | "ended" | "dropped"
    status,         \* HTTP status of the response, 0 before any response
    iter,           \* lines.into_iter(): the events not yet yielded
    has_delayed,    \* Throttle::has_delayed
    deadline,       \* Throttle::delay deadline
    emitted,        \* events yielded by the stream so far, in order
    emitTimes,      \* clock value at each yield
    wire,           \* lines written to the connection, not yet read
    received,       \* events parsed by the consumer, in arrival order
    consumer,       \* "connected" | "gone"
    \* ---- Entitlements::load ----
    envLicense,     \* DDUI_LICENSE: absent or a document
    envLicensePath, \* DDUI_LICENSE_PATH: absent or a path
    files,          \* license files on disk: path -> absent or a document
    loadState,      \* "start" | "loaded"
    loaded          \* the Result returned by Entitlements::load

invVars == <<fs, unreadable, responded, inventory, previous>>
runVars == <<ents, now, runState, status, iter, has_delayed, deadline,
             emitted, emitTimes, wire, received, consumer>>
entVars == <<envLicense, envLicensePath, files, loadState, loaded>>
vars == <<invVars, runVars, entVars>>

\* ------------------------------------------------------------------------
\* Bounds of the model
\* ------------------------------------------------------------------------
MaxNodes == 5
MaxTime == 1200
TickMs == 100

\* ------------------------------------------------------------------------
\* Names and their characters
\* ------------------------------------------------------------------------
HostNames == {"hostA", "hostB"}
StackNames == {"stackX", "stackY"}
EntryNames == {"docker-compose.yaml", "docker-compose.tpl.yaml", "deploy.sh",
               "secret.env.sops", "KEY.SOPS.JSON", "notes.sops", "sub"}
NestedNames == {"docker-compose.yaml", "secret.env.sops"}

\* OsStr::to_string_lossy: the characters of a file name
to_string_lossy(n) ==
    CASE n = "docker-compose.yaml" ->
           <<"d","o","c","k","e","r","-","c","o","m","p","o","s","e",".","y","a","m","l">>
      [] n = "docker-compose.tpl.yaml" ->
           <<"d","o","c","k","e","r","-","c","o","m","p","o","s","e",".","t","p","l",".","y","a","m","l">>
      [] n = "deploy.sh" -> <<"d","e","p","l","o","y",".","s","h">>
      [] n = "secret.env.sops" ->
           <<"s","e","c","r","e","t",".","e","n","v",".","s","o","p","s">>
      [] n = "KEY.SOPS.JSON" ->
           <<"K","E","Y",".","S","O","P","S",".","J","S","O","N">>
      [] n = "notes.sops" -> <<"n","o","t","e","s",".","s","o","p","s">>
      [] n = "sub" -> <<"s","u","b">>
      [] n = "hostA" -> <<"h","o","s","t","A">>
      [] n = "hostB" -> <<"h","o","s","t","B">>
      [] n = "stackX" -> <<"s","t","a","c","k","X">>
      [] n = "stackY" -> <<"s","t","a","c","k","Y">>

UpperChars == <<"A","B","C","D","E","F","G","H","I","J","K","L","M",
                "N","O","P","Q","R","S","T","U","V","W","X","Y","Z">>
LowerChars == <<"a","b","c","d","e","f","g","h","i","j","k","l","m",
                "n","o","p","q","r","s","t","u","v","w","x","y","z">>

\* str::to_lowercase
to_lowercase(s) ==
    [i \in 1..Len(s) |->
        IF \E k \in 1..26 : UpperChars[k] = s[i]
        THEN LowerChars[CHOOSE k \in 1..26 : UpperChars[k] = s[i]]
        ELSE s[i]]

\* str::ends_with
ends_with(s, suf) ==
    /\ Len(suf) <= Len(s)
    /\ SubSeq(s, Len(s) - Len(suf) + 1, Len(s)) = suf

\* str::contains
contains(s, sub) ==
    \E i \in 1..(Len(s) - Len(sub) + 1) : SubSeq(s, i, i + Len(sub) - 1) = sub

EnvSopsSuffix == <<".","e","n","v",".","s","o","p","s">>
SopsInfix == <<".","s","o","p","s",".">>

\* ------------------------------------------------------------------------
\* Paths and the filesystem calls the scan makes
\* ------------------------------------------------------------------------
\* cfg.scan_root
ScanRoot == <<"opt", "stacks">>

\* Path::join
join(p, n) == Append(p, n)
\* Path::parent
parent(p) == SubSeq(p, 1, Len(p) - 1)
\* DirEntry::file_name
file_name(p) == p[Len(p)]

IsPrefix(p, q) == Len(p) <= Len(q) /\ SubSeq(q, 1, Len(p)) = p

\* stat(p) succeeds: p exists and every directory above it can be searched
Stat(p) ==
    /\ p \in DOMAIN fs
    /\ \A d \in unreadable : ~(IsPrefix(d, p) /\ d # p)

\* Path::exists
exists(p) == Stat(p)

\* Path::is_dir
is_dir(p) == Stat(p) /\ fs[p] = "dir"

\* fs::read_dir(p) returns Ok
ReadDirOk(p) == is_dir(p) /\ p \notin unreadable

\* the entries fs::read_dir(p) yields
Children(p) == {q \in DOMAIN fs : Len(q) = Len(p) + 1 /\ parent(q) = p}

RECURSIVE Perms(_)
Perms(S) ==
    IF S = {} THEN {<<>>}
    ELSE UNION {{<<x>> \o t : t \in Perms(S \ {x})} : x \in S}

\* the orders in which fs::read_dir(p) may yield its entries
ReadDirOrders(p) == Perms(Children(p))

\* DirEntry::metadata().is_file()
MetadataIsFile(e) == Stat(e) /\ fs[e] = "file"

\* ------------------------------------------------------------------------
\* get_inventory
\* ------------------------------------------------------------------------
glob_has_sops(dir) ==
    IF ReadDirOk(dir)
    THEN \E e \in Children(dir) :
            /\ MetadataIsFile(e)
            /\ LET name == to_lowercase(to_string_lossy(file_name(e)))
               IN  ends_with(name, EnvSopsSuffix) \/ contains(name, SopsInfix)
    ELSE FALSE

\* StackOf with the host directory's path given as the stack's path
StackOf_hostPath(sp) ==
    LET dc_yaml == join(sp, "docker-compose.yaml")
        dc_tpl == join(sp, "docker-compose.tpl.yaml")
    IN  [name |-> file_name(sp),
         type |-> IF exists(dc_yaml) \/ exists(dc_tpl) THEN "compose" ELSE "script",
         path |-> parent(sp),
         sops |-> glob_has_sops(sp),
         containers |-> <<>>]

\* the Stack pushed for one stack directory
StackOf(sp) ==
    LET dc_yaml == join(sp, "docker-compose.yaml")
        dc_tpl == join(sp, "docker-compose.tpl.yaml")
    IN  [name |-> file_name(sp),
         type |-> IF exists(dc_yaml) \/ exists(dc_tpl) THEN "compose" ELSE "script",
         path |-> sp,
         sops |-> glob_has_sops(sp),
         containers |-> <<>>]

\* the inner loop over the entries of a host directory
RECURSIVE ScanStacks(_)
ScanStacks(es) ==
    IF es = <<>> THEN <<>>
    ELSE IF ~is_dir(Head(es)) THEN ScanStacks(Tail(es))
    ELSE <<StackOf(Head(es))>> \o ScanStacks(Tail(es))

\* the Host pushed for one host directory, over every listing order
HostResults(hp) ==
    {[host |-> file_name(hp), groups |-> <<>>, stacks |-> st] :
        st \in (IF ReadDirOk(hp)
                THEN {ScanStacks(es) : es \in ReadDirOrders(hp)}
                ELSE {<<>>})}

\* ScanHosts without the is_dir test: every entry of the root becomes a host
RECURSIVE ScanHosts_noDirCheck(_)
ScanHosts_noDirCheck(es) ==
    IF es = <<>> THEN {<<>>}
    ELSE {<<h>> \o rest : h \in HostResults(Head(es)),
                          rest \in ScanHosts_noDirCheck(Tail(es))}

\* the outer loop over the entries of the scan root
RECURSIVE ScanHosts(_)
ScanHosts(es) ==
    IF es = <<>> THEN {<<>>}
    ELSE IF ~is_dir(Head(es)) THEN ScanHosts(Tail(es))
    ELSE {<<h>> \o rest : h \in HostResults(Head(es)), rest \in ScanHosts(Tail(es))}

\* every hosts vector get_inventory can return on the current filesystem
InventoryResults ==
    IF exists(ScanRoot) /\ ReadDirOk(ScanRoot)
    THEN UNION {ScanHosts(es) : es \in ReadDirOrders(ScanRoot)}
    ELSE {<<>>}

get_inventory ==
    /\ \E hosts \in InventoryResults : inventory' = hosts
    /\ responded' = TRUE
    /\ previous' = IF responded THEN <<inventory>> ELSE <<>>
    /\ UNCHANGED <<fs, unreadable, runVars, entVars>>

\* the response has been serialized and dropped
Discard ==
    /\ responded
    /\ responded' = FALSE
    /\ inventory' = <<>>
    /\ previous' = <<>>
    /\ UNCHANGED <<fs, unreadable, runVars, entVars>>

\* ---- the environment changes the tree between requests ----
AllowedNames(p) ==
    CASE Len(p) = Len(ScanRoot) -> HostNames
      [] Len(p) = Len(ScanRoot) + 1 -> StackNames
      [] Len(p) = Len(ScanRoot) + 2 -> EntryNames
      [] Len(p) = Len(ScanRoot) + 3 -> NestedNames
      [] OTHER -> {}

CreateRoot ==
    /\ ~responded
    /\ ScanRoot \notin DOMAIN fs
    /\ \E k \in {"file", "dir"} : fs' = (ScanRoot :> k)
    /\ UNCHANGED <<unreadable, responded, inventory, previous, runVars, entVars>>

Create ==
    /\ ~responded
    /\ Cardinality(DOMAIN fs) < MaxNodes
    /\ \E d \in DOMAIN fs : \E n \in AllowedNames(d) : \E k \in {"file", "dir"} :
          /\ fs[d] = "dir"
          /\ join(d, n) \notin DOMAIN fs
          /\ fs' = fs @@ (join(d, n) :> k)
    /\ UNCHANGED <<unreadable, responded, inventory, previous, runVars, entVars>>

Remove ==
    /\ ~responded
    /\ \E p \in DOMAIN fs :
          /\ Children(p) = {}
          /\ fs' = [q \in DOMAIN fs \ {p} |-> fs[q]]
          /\ unreadable' = unreadable \ {p}
    /\ UNCHANGED <<responded, inventory, previous, runVars, entVars>>

Chmod ==
    /\ ~responded
    /\ \E d \in DOMAIN fs :
          /\ fs[d] = "dir"
          /\ unreadable' = IF d \in unreadable THEN unreadable \ {d}
                           ELSE unreadable \cup {d}
    /\ UNCHANGED <<fs, responded, inventory, previous, runVars, entVars>>

\* ------------------------------------------------------------------------
\* Entitlements
\* ------------------------------------------------------------------------
None == <<>>
Some(x) == <<x>>

\* impl Default for Entitlements
Default ==
    [edition |-> "Community",
     max_hosts |-> Some(15),
     demo_stacks |-> Some(3),
     features |-> [ci_api |-> TRUE, wizards |-> TRUE, history_days |-> 30],
     org |-> None]

\* ------------------------------------------------------------------------
\* ci_run: the streamed run
\* ------------------------------------------------------------------------
\* Duration::from_millis(200)
ThrottleMs == 200

\* the entitlement values a request may run under
RunEntitlements ==
    {[Default EXCEPT !.edition = e, !.features.ci_api = c] :
        e \in {"Community", "Pro"}, c \in BOOLEAN}

\* CiRunRequest.mode
Modes == {"plan", "apply"}

\* Lines with the summary event emitted before the last progress event
Lines_doneNotLast(start, edition) ==
    << [ts |-> start, level |-> "info", msg |-> "run started", edition |-> edition],
       [level |-> "info", msg |-> "planning"],
       [level |-> "done",
        summary |-> [hosts |-> 0, stacks |-> 0, changed |-> 0, failed |-> 0]],
       [level |-> "info", msg |-> "nothing to change"] >>

\* the lines vector of ci_run
Lines(start, edition) ==
    << [ts |-> start, level |-> "info", msg |-> "run started", edition |-> edition],
       [level |-> "info", msg |-> "planning"],
       [level |-> "info", msg |-> "nothing to change"],
       [level |-> "done",
        summary |-> [hosts |-> 0, stacks |-> 0, changed |-> 0, failed |-> 0]] >>

\* format!("{}\n", serde_json::to_string(&v)): one line per event
to_line(v) == <<v, "\n">>
\* the consumer reads one line and parses it
from_line(l) == l[1]

\* the handler: builds the lines and returns the streaming response
ci_run ==
    /\ runState = "idle"
    /\ \E mode \in Modes :
          /\ iter' = Lines(now, ents.edition)
          /\ has_delayed' = TRUE
          /\ deadline' = now
          /\ status' = 200
          /\ runState' = "streaming"
    /\ UNCHANGED <<ents, now, emitted, emitTimes, wire, received, consumer,
                   invVars, entVars>>

\* ThrottleReady without the throttle: every poll yields at once
ThrottleReady_noDelay == TRUE

\* Throttle::poll_next: the delay since the last item has elapsed
ThrottleReady == has_delayed \/ now >= deadline

\* StreamPolled for a producer detached from the response body
StreamPolled_detached == runState \in {"streaming", "dropped"}

\* Body::from_stream polls the stream while the response body is alive
StreamPolled == runState = "streaming"

\* one poll of the body stream that does not return Pending
PollNext ==
    /\ StreamPolled
    /\ ThrottleReady
    /\ IF iter # <<>>
       THEN /\ emitted' = Append(emitted, Head(iter))
            /\ emitTimes' = Append(emitTimes, now)
            /\ wire' = Append(wire, to_line(Head(iter)))
            /\ iter' = Tail(iter)
            /\ has_delayed' = FALSE
            /\ deadline' = now + ThrottleMs
            /\ UNCHANGED runState
       ELSE /\ runState' = "ended"
            /\ has_delayed' = TRUE
            /\ UNCHANGED <<emitted, emitTimes, wire, iter, deadline>>
    /\ UNCHANGED <<ents, now, status, received, consumer, invVars, entVars>>

\* time passes
Tick ==
    /\ now + TickMs <= MaxTime
    /\ now' = now + TickMs
    /\ UNCHANGED <<ents, runState, status, iter, has_delayed, deadline, emitted,
                   emitTimes, wire, received, consumer, invVars, entVars>>

\* the consumer reads the next line from the connection
Receive ==
    /\ consumer = "connected"
    /\ wire # <<>>
    /\ received' = Append(received, from_line(Head(wire)))
    /\ wire' = Tail(wire)
    /\ UNCHANGED <<ents, now, runState, status, iter, has_delayed, deadline,
                   emitted, emitTimes, consumer, invVars, entVars>>

\* the consumer closes the connection while the response is streaming
ConsumerDisconnect ==
    /\ consumer = "connected"
    /\ runState = "streaming"
    /\ consumer' = "gone"
    /\ UNCHANGED <<ents, now, runState, status, iter, has_delayed, deadline,
                   emitted, emitTimes, wire, received, invVars, entVars>>

\* the server sees the closed connection and drops the response body, and
\* with it the stream, its timer and the remaining lines
DetectDisconnect ==
    /\ consumer = "gone"
    /\ runState = "streaming"
    /\ runState' = "dropped"
    /\ iter' = <<>>
    /\ wire' = <<>>
    /\ UNCHANGED <<ents, now, status, has_delayed, deadline, emitted, emitTimes,
                   received, consumer, invVars, entVars>>

\* ------------------------------------------------------------------------
\* Entitlements::load
\* ------------------------------------------------------------------------
Jstr(x) == [t |-> "string", v |-> x]
Jnum(x) == [t |-> "number", v |-> x]
Jbool(x) == [t |-> "bool", v |-> x]
Jnull == [t |-> "null", v |-> 0]
Jobj(f) == [t |-> "object", v |-> f]
\* text that is not JSON
NotJson == [t |-> "invalid", v |-> 0]
\* an environment value that is not valid Unicode
NotUnicode == [t |-> "not_unicode", v |-> 0]

FeaturesJson(c, h) ==
    Jobj([ci_api |-> Jbool(c), wizards |-> Jbool(TRUE), history_days |-> Jnum(h)])

\* a paid licence with every field
DocPro ==
    Jobj([edition |-> Jstr("Pro"), max_hosts |-> Jnull, demo_stacks |-> Jnum(50),
          features |-> FeaturesJson(TRUE, 365), org |-> Jstr("acme")])
\* a licence that leaves the optional fields out and has an extra field
DocEnterprise ==
    Jobj([edition |-> Jstr("Enterprise"), features |-> FeaturesJson(FALSE, 0),
          issued |-> Jstr("2025-01-01")])
\* no features
DocNoFeatures == Jobj([edition |-> Jstr("Pro"), max_hosts |-> Jnum(100)])
\* camelCase field names
DocCamel ==
    Jobj([edition |-> Jstr("Pro"), maxHosts |-> Jnum(100),
          features |-> Jobj([ciApi |-> Jbool(TRUE), wizards |-> Jbool(TRUE),
                             historyDays |-> Jnum(365)])])
\* history_days outside u32
DocNegative ==
    Jobj([edition |-> Jstr("Pro"), features |-> FeaturesJson(TRUE, -1)])
\* edition of the wrong type
DocBadEdition ==
    Jobj([edition |-> Jnum(2), features |-> FeaturesJson(TRUE, 30)])

EnvDocs == {NotJson, DocPro, DocEnterprise, DocNoFeatures, DocCamel, DocNegative,
            DocBadEdition, NotUnicode}
FileDocs == {NotJson, DocPro, DocEnterprise, DocCamel}

DefaultLicensePath == "/run/secrets/ddui_license"
LicensePaths == {DefaultLicensePath, "/etc/ddui/license.json"}

Has(o, k, ty) == k \in DOMAIN o /\ o[k].t = ty

\* Deserialize for Option<usize> / Option<String>
OptOk(o, k, ty) == k \notin DOMAIN o \/ o[k].t = "null" \/
                   (o[k].t = ty /\ (ty = "number" => o[k].v >= 0))
OptOf(o, k) == IF k \notin DOMAIN o \/ o[k].t = "null" THEN None ELSE Some(o[k].v)

\* Deserialize for Features succeeds
FeaturesOk(j) ==
    /\ j.t = "object"
    /\ Has(j.v, "ci_api", "bool")
    /\ Has(j.v, "wizards", "bool")
    /\ Has(j.v, "history_days", "number")
    /\ j.v["history_days"].v >= 0     \* u32: no negative number

\* serde_json::from_str::<Entitlements> returns Ok
from_str_ok(doc) ==
    /\ doc.t = "object"
    /\ Has(doc.v, "edition", "string")
    /\ OptOk(doc.v, "max_hosts", "number")
    /\ OptOk(doc.v, "demo_stacks", "number")
    /\ "features" \in DOMAIN doc.v
    /\ FeaturesOk(doc.v["features"])
    /\ OptOk(doc.v, "org", "string")

\* the value serde_json::from_str::<Entitlements> returns when Ok
from_str(doc) ==
    [edition |-> doc.v["edition"].v,
     max_hosts |-> OptOf(doc.v, "max_hosts"),
     demo_stacks |-> OptOf(doc.v, "demo_stacks"),
     features |-> [ci_api |-> doc.v["features"].v["ci_api"].v,
                   wizards |-> doc.v["features"].v["wizards"].v,
                   history_days |-> doc.v["features"].v["history_days"].v],
     org |-> OptOf(doc.v, "org")]

\* std::env::var(..).ok()
env_var_ok(x) == IF x = None THEN None
                 ELSE IF x[1].t = "not_unicode" THEN None ELSE x

\* fs::read_to_string(path)
read_to_string(path) == IF path \in DOMAIN files THEN files[path] ELSE None

\* load with the licence file consulted before the environment value
load_fileFirst ==
    LET env_key == env_var_ok(envLicense)
        path == IF envLicensePath = None THEN DefaultLicensePath
                ELSE envLicensePath[1]
        buf == read_to_string(path)
    IN  IF buf # None /\ from_str_ok(buf[1])
        THEN [ok |-> TRUE, value |-> from_str(buf[1])]
        ELSE IF env_key # None /\ from_str_ok(env_key[1])
        THEN [ok |-> TRUE, value |-> from_str(env_key[1])]
        ELSE [ok |-> TRUE, value |-> Default]

\* Entitlements::load
load ==
    LET env_key == env_var_ok(envLicense)
        path == IF envLicensePath = None THEN DefaultLicensePath
                ELSE envLicensePath[1]
        buf == read_to_string(path)
    IN  IF env_key # None /\ from_str_ok(env_key[1])
        THEN [ok |-> TRUE, value |-> from_str(env_key[1])]
        ELSE IF buf # None /\ from_str_ok(buf[1])
        THEN [ok |-> TRUE, value |-> from_str(buf[1])]
        ELSE [ok |-> TRUE, value |-> Default]

\* main calls Entitlements::load once at startup
Load ==
    /\ loadState = "start"
    /\ loaded' = load
    /\ loadState' = "loaded"
    /\ UNCHANGED <<envLicense, envLicensePath, files, invVars, runVars>>

\* ------------------------------------------------------------------------
\* Properties
\* ------------------------------------------------------------------------
Last(q) == q[Len(q)]
Range(q) == {q[i] : i \in 1..Len(q)}
IsPrefixSeq(p, q) == Len(p) <= Len(q) /\ \A i \in 1..Len(p) : p[i] = q[i]

\* the stacks of a response, each with the host that owns it
StacksOf(inv) ==
    UNION {{<<inv[i], inv[i].stacks[j]>> : j \in 1..Len(inv[i].stacks)} :
              i \in 1..Len(inv)}

\* a response as a set of hosts, each with its set of stacks
HostSet(inv) ==
    {[host |-> h.host, groups |-> h.groups, stacks |-> Range(h.stacks)] : h \in Range(inv)}

\* the directories directly under the scan root
RootDirs == {d \in Children(ScanRoot) : fs[d] = "dir"}

ComposeNames == {"docker-compose.yaml", "docker-compose.tpl.yaml"}

SopsName(n) ==
    LET name == to_lowercase(to_string_lossy(n))
    IN  ends_with(name, EnvSopsSuffix) \/ contains(name, SopsInfix)

\* the statuses of an authorization failure
AuthErrors == {401, 403}

\* C1: under an entitlement whose features.ci_api is false, a run request
\* fails with an authorization error, no event is emitted or delivered and
\* no stream is started.
C1_GatedRunFailsFast ==
    (~ents.features.ci_api /\ runState # "idle") =>
        /\ status \in AuthErrors
        /\ emitted = <<>>
        /\ received = <<>>
        /\ iter = <<>>
        /\ runState # "streaming"

\* C2: under a granted entitlement the event sequence of a run is non-empty,
\* its last event is the only one of level "done" and carries the summary
\* (hosts, stacks, changed, failed), and every event before it is not "done".
C2_TerminalEventLast ==
    (ents.features.ci_api /\ runState \in {"streaming", "ended"}) =>
        LET seq == emitted \o iter
        IN  /\ seq # <<>>
            /\ Last(seq).level = "done"
            /\ "summary" \in DOMAIN Last(seq)
            /\ DOMAIN Last(seq).summary = {"hosts", "stacks", "changed", "failed"}
            /\ \A i \in 1..(Len(seq) - 1) : seq[i].level # "done"
            /\ (runState = "ended" => (iter = <<>> /\ Last(emitted).level = "done"))

C2_Witness ==
    /\ ents.features.ci_api
    /\ runState = "ended"
    /\ Len(emitted) = 4
    /\ received = emitted

\* C3: the consumer sees the events in emission order, each once and none
\* lost; the first event is emitted strictly before the last one, and two
\* successive events are emitted at least the throttle delay (200 ms) apart.
C3_OrderedIncremental ==
    /\ IsPrefixSeq(received, emitted)
    /\ consumer = "connected" =>
          received \o [i \in 1..Len(wire) |-> from_line(wire[i])] = emitted
    /\ \A i, j \in 1..Len(received) : i < j => received[i] # received[j]
    /\ Len(emitTimes) = Len(emitted)
    /\ \A i \in 1..(Len(emitTimes) - 1) : emitTimes[i + 1] - emitTimes[i] >= ThrottleMs
    /\ Len(emitted) >= 2 => emitTimes[1] < Last(emitTimes)

C3_Witness ==
    /\ Len(received) = 2
    /\ Len(emitted) = 3
    /\ iter # <<>>
    /\ runState = "streaming"

\* C4: a stack's type is "compose" exactly when a file named
\* docker-compose.yaml or docker-compose.tpl.yaml lies directly inside the
\* stack directory, and "script" otherwise.
C4_ComposeIffManifestFile ==
    responded =>
        \A hs \in StacksOf(inventory) :
            LET s == hs[2]
                manifest == \E n \in ComposeNames :
                               /\ join(s.path, n) \in DOMAIN fs
                               /\ fs[join(s.path, n)] = "file"
            IN  s.type = IF manifest THEN "compose" ELSE "script"

\* C5: a stack's sops flag is true exactly when a regular file directly
\* inside the stack directory has a lower-cased name that ends with
\* ".env.sops" or contains ".sops.".
C5_SopsIffSecretFile ==
    responded =>
        \A hs \in StacksOf(inventory) :
            LET s == hs[2]
            IN  s.sops <=> \E e \in Children(s.path) :
                              fs[e] = "file" /\ SopsName(file_name(e))

\* exactly one Host per directory directly under the scan root
OneHostPerRootDir ==
    /\ Len(inventory) = Cardinality(RootDirs)
    /\ \A d \in RootDirs : \E i \in 1..Len(inventory) : inventory[i].host = file_name(d)

Idempotent == previous # <<>> => HostSet(previous[1]) = HostSet(inventory)

\* C6 as stated: for every tree there is exactly one Host per directory
\* directly under the scan root, none when the root does not exist, and two
\* calls with no change in between return the same hosts and stacks.
C6_OneHostPerRootDir_AnyTree ==
    responded =>
        /\ OneHostPerRootDir
        /\ ScanRoot \notin DOMAIN fs => inventory = <<>>
        /\ Idempotent

\* C6 amended: the same for every tree whose scan root can be listed; a
\* scan root that does not exist or cannot be listed yields zero hosts.
C6_OneHostPerRootDir_ListableRoot ==
    responded =>
        /\ IF ScanRoot \in DOMAIN fs /\ ScanRoot \notin unreadable
           THEN OneHostPerRootDir
           ELSE inventory = <<>>
        /\ Idempotent

C6_Witness ==
    /\ responded
    /\ previous # <<>>
    /\ Len(inventory) = 1
    /\ inventory[1].stacks # <<>>
    /\ \E c \in Children(ScanRoot) : fs[c] = "file"

\* C7: a host directory that cannot be listed and a stack directory that
\* cannot be read are left out of the inventory, and every other host and
\* stack is reported.
C7_FailingEntriesOmitted ==
    responded =>
        /\ \A h \in Range(inventory) : join(ScanRoot, h.host) \notin unreadable
        /\ \A hs \in StacksOf(inventory) : hs[2].path \notin unreadable
        /\ (ScanRoot \in DOMAIN fs /\ ScanRoot \notin unreadable) =>
              \A d \in RootDirs \ unreadable :
                  \E h \in Range(inventory) :
                      /\ h.host = file_name(d)
                      /\ \A sd \in Children(d) \ unreadable :
                            fs[sd] = "dir" => \E s \in Range(h.stacks) : s.path = sd

\* C8: load returns Ok; the environment value is used when it is present
\* and parses, otherwise the licence file when it is readable and parses,
\* otherwise edition "Community", 15 hosts, 3 demo stacks, ci_api true and
\* 30 history days; an edition other than "Community" comes from an input
\* that parsed.
C8_LoadPrecedence ==
    loadState = "loaded" =>
        LET envOk == envLicense # None /\ from_str_ok(envLicense[1])
            path == IF envLicensePath = None THEN "/run/secrets/ddui_license"
                    ELSE envLicensePath[1]
            fileOk == files[path] # None /\ from_str_ok(files[path][1])
            e == loaded.value
        IN  /\ loaded.ok
            /\ envOk => e = from_str(envLicense[1])
            /\ (~envOk /\ fileOk) => e = from_str(files[path][1])
            /\ (~envOk /\ ~fileOk) =>
                  /\ e.edition = "Community"
                  /\ e.max_hosts = <<15>>
                  /\ e.demo_stacks = <<3>>
                  /\ e.features.ci_api
                  /\ e.features.history_days = 30
            /\ e.edition # "Community" =>
                  \/ envOk /\ envLicense[1].v["edition"].v = e.edition
                  \/ ~envOk /\ fileOk /\ files[path][1].v["edition"].v = e.edition

C8_Witness ==
    /\ loadState = "loaded"
    /\ envLicense # None
    /\ ~from_str_ok(envLicense[1])
    /\ envLicensePath # None
    /\ files[envLicensePath[1]] # None
    /\ ~from_str_ok(files[envLicensePath[1]][1])
    /\ loaded.value.edition = "Community"

\* C9: once the server has seen the consumer gone the stream is dropped:
\* from then on no event is produced, the remaining lines and the timer are
\* released, and a consumer that left never leaves the producer running: the
\* stream is dropped or has ended.
C9_ProducerCancelled ==
    /\ [][runState = "dropped" =>
            (runState' = "dropped" /\ emitted' = emitted /\ iter' = <<>>)]_vars
    /\ [](runState = "dropped" => (iter = <<>> /\ consumer = "gone"))
    /\ ((consumer = "gone") ~> (runState \in {"dropped", "ended"}))

C9_Witness ==
    /\ runState = "dropped"
    /\ consumer = "gone"
    /\ Len(emitted) = 2
    /\ now > Last(emitTimes) + ThrottleMs

\* C10: every Stack.path is a directory directly inside its Host's
\* directory, which lies directly inside the scan root; Stack.name and
\* Host.host are the base names of those directories; containers and groups
\* are empty.
C10_PathsAreDirectChildren ==
    responded =>
        /\ \A h \in Range(inventory) :
              /\ join(ScanRoot, h.host) \in RootDirs
              /\ h.groups = <<>>
        /\ \A hs \in StacksOf(inventory) :
              LET h == hs[1]
                  s == hs[2]
              IN  /\ parent(s.path) = join(ScanRoot, h.host)
                  /\ parent(parent(s.path)) = ScanRoot
                  /\ Len(s.path) = Len(ScanRoot) + 2
                  /\ s.path \in DOMAIN fs
                  /\ fs[s.path] = "dir"
                  /\ s.name = file_name(s.path)
                  /\ s.containers = <<>>

C10_Witness ==
    /\ responded
    /\ Len(inventory) = 2
    /\ inventory[1].stacks # <<>>
    /\ inventory[2].stacks # <<>>

\* ------------------------------------------------------------------------
\* Specifications
\* ------------------------------------------------------------------------
InvIdle ==
    /\ fs = <<>>
    /\ unreadable = {}
    /\ responded = FALSE
    /\ inventory = <<>>
    /\ previous = <<>>

RunIdle ==
    /\ ents = Default
    /\ now = 0
    /\ runState = "idle"
    /\ status = 0
    /\ iter = <<>>
    /\ has_delayed = TRUE
    /\ deadline = 0
    /\ emitted = <<>>
    /\ emitTimes = <<>>
    /\ wire = <<>>
    /\ received = <<>>
    /\ consumer = "connected"

EntIdle ==
    /\ envLicense = None
    /\ envLicensePath = None
    /\ files = [p \in LicensePaths |-> None]
    /\ loadState = "start"
    /\ loaded = <<>>

\* the inventory endpoint over a changing tree
InitInventory == InvIdle /\ RunIdle /\ EntIdle

NextInventory ==
    \/ CreateRoot
    \/ Create
    \/ Remove
    \/ Chmod
    \/ get_inventory
    \/ Discard

SpecInventory == InitInventory /\ [][NextInventory]_vars

\* the run endpoint with its consumer
InitRun ==
    /\ InvIdle
    /\ EntIdle
    /\ ents \in RunEntitlements
    /\ now = 0
    /\ runState = "idle"
    /\ status = 0
    /\ iter = <<>>
    /\ has_delayed = TRUE
    /\ deadline = 0
    /\ emitted = <<>>
    /\ emitTimes = <<>>
    /\ wire = <<>>
    /\ received = <<>>
    /\ consumer = "connected"

NextRun ==
    \/ ci_run
    \/ PollNext
    \/ Tick
    \/ Receive
    \/ ConsumerDisconnect
    \/ DetectDisconnect

SpecRun == InitRun /\ [][NextRun]_vars

\* the connection task is scheduled: a closed connection is noticed
FairSpecRun == SpecRun /\ WF_vars(DetectDisconnect)

\* startup under every combination of licence inputs
InitEntitlements ==
    /\ InvIdle
    /\ RunIdle
    /\ envLicense \in {None} \cup {Some(d) : d \in EnvDocs}
    /\ envLicensePath \in {None} \cup {Some(p) : p \in LicensePaths}
    /\ files \in [LicensePaths -> {None} \cup {Some(d) : d \in FileDocs}]
    /\ loadState = "start"
    /\ loaded = <<>>

NextEntitlements == Load

SpecEntitlements == InitEntitlements /\ [][NextEntitlements]_vars

====
